---- MODULE Spec2Model ----
(***************************************************************************)
(* The task CRUD service: four Express handlers (GET /read, POST /create,  *)
(* POST /update, GET /delete/:id) in front of one Prisma table `tasks`.    *)
(*                                                                         *)
(* A request is handled in two steps, as in the source: the synchronous    *)
(* part of the handler (validation, issuing the store call) and, after the *)
(* single suspension point, the settlement of the store promise (.then or  *)
(* .catch, or the continuation after `await`).  The store operation itself *)
(* is one implicit transaction; it takes effect at the settlement step.    *)
(*                                                                         *)
(* Values that may be missing from a JSON body are options: <<>> is        *)
(* `undefined`, <<v>> is the value v.  Request bodies range over the       *)
(* request schema the source documents for the endpoint (name and info     *)
(* strings, isDone boolean, id integer), each property possibly omitted.   *)
(***************************************************************************)
EXTENDS Integers, Sequences, FiniteSets, Bags

\* ---------------------------------------------------------------- bounds
\* Creates are accepted while the autoincrement counter is at most MaxId.
MaxId == 2

\* Connections; each has at most one request outstanding.
Clients == {"c1", "c2"}

\* req.params.id as the characters of the path segment (never empty: the
\* route /delete/:id does not match an empty segment).
PathParams == { <<"1">>, <<"2">>, <<"1", "x">>, <<"x">> }

\* ---------------------------------------------------------------- values
Undefined == <<>>

Opt(S) == {Undefined} \cup { <<v>> : v \in S }

\* Bodies of POST /create and of POST /update.
CreateBodies == [name : Opt({"", "a"}), info : Opt({"x"}), isDone : Opt({TRUE})]

UpdateBodies == [name : Opt({"a", "b"}), info : Opt({"x"}), isDone : Opt({TRUE})]

\* The id of an /update body: missing, or the id of the first or second Task.
BodyIds == Opt({1, 2})

NoData == [name |-> Undefined, info |-> Undefined, isDone |-> Undefined]

\* A store call a request is suspended on.
Call(op, id, data) == [op |-> op, id |-> id, data |-> data]

NoResp ==
    [op |-> "none", status |-> 0, type |-> "none", task |-> <<>>,
     tasks |-> <<>>, errors |-> <<>>, err |-> ""]

\* ------------------------------------------------------ express-validator
\* The validators work on the string form of the value; undefined is "".
ToStr(v) == IF v = Undefined THEN "" ELSE v[1]

\* Variant: exists() in place of notEmpty().
NotEmptyExists(v) == v # Undefined

\* notEmpty(): the string form has at least one character.
NotEmpty(v) == ToStr(v) # ""

FieldError(path, loc) ==
    [type |-> "field", msg |-> "Invalid value", path |-> path, location |-> loc]

\* default(d): an undefined value (for a string also "", which is the
\* default itself here) is replaced by d.
Default(v, d) == IF v = Undefined THEN <<d>> ELSE v

\* validationResult(req).array() after the /create chains.
ValidateCreate(b) ==
    IF NotEmpty(b.name) THEN <<>> ELSE << FieldError("name", "body") >>

\* Variant: isDone defaults to true.
SanitizeCreateDone(b) ==
    [name |-> b.name, info |-> Default(b.info, ""), isDone |-> Default(b.isDone, TRUE)]

\* req.body after the /create chains ran their sanitizers.
SanitizeCreate(b) ==
    [name |-> b.name, info |-> Default(b.info, ""), isDone |-> Default(b.isDone, FALSE)]

\* body('name'), body('info'), body('isDone') carry no validator: no errors.
ValidateUpdate(b) == <<>>

\* param('id').notEmpty()
ValidateDelete(p) ==
    IF Len(p) > 0 THEN <<>> ELSE << FieldError("id", "params") >>

\* ---------------------------------------------------------------- parseInt
IsDigit(c) == c \in {"0", "1", "2", "3", "4", "5", "6", "7", "8", "9"}

DigitVal(c) ==
    CASE c = "0" -> 0 [] c = "1" -> 1 [] c = "2" -> 2 [] c = "3" -> 3
      [] c = "4" -> 4 [] c = "5" -> 5 [] c = "6" -> 6 [] c = "7" -> 7
      [] c = "8" -> 8 [] c = "9" -> 9

RECURSIVE DigitPrefix(_)
DigitPrefix(s) ==
    IF s = <<>> \/ ~IsDigit(Head(s)) THEN <<>> ELSE <<Head(s)>> \o DigitPrefix(Tail(s))

RECURSIVE DigitsValue(_, _)
DigitsValue(s, acc) ==
    IF s = <<>> THEN acc ELSE DigitsValue(Tail(s), 10 * acc + DigitVal(Head(s)))

\* parseInt(s): the value of the longest prefix of digits; NaN (Undefined
\* here) when there is none.
ParseInt(s) ==
    IF DigitPrefix(s) = <<>> THEN Undefined ELSE << DigitsValue(DigitPrefix(s), 0) >>

\* ------------------------------------------------------------------ store
VARIABLES
    store,      \* the rows of table tasks, in insertion order
    nextId,     \* the autoincrement counter of tasks.id
    pending,    \* the store calls that requests are suspended on (a bag)
    resp,       \* the response sent by the last step (NoResp: it sent none)
    alive,      \* the server process is running
    used        \* history: every id a row of tasks ever had

vars == <<store, nextId, pending, resp, alive, used>>

InFlight == BagCardinality(pending)

Calls == BagToSet(pending)

Suspend(q) == pending (+) SetToBag({q})

Settle(q) == pending (-) SetToBag({q})

\* The number of calls of kind op in flight.
InFlightOf(op) == BagCardinality([q \in {c \in Calls : c.op = op} |-> pending[q]])

Ids(rows) == { rows[i].id : i \in 1 .. Len(rows) }

HasId(rows, id) == id # Undefined /\ id[1] \in Ids(rows)

RowOf(rows, n) == CHOOSE r \in { rows[i] : i \in 1 .. Len(rows) } : r.id = n

CountId(rows, n) == Cardinality({ i \in 1 .. Len(rows) : rows[i].id = n })

\* The id the store gives the next row: the column counts up and never hands
\* out an id again.
AssignedId == nextId

\* prisma.tasks.create: the row inserted; the store assigns id.
NewRow(id, data) ==
    [id |-> id, name |-> data.name[1], info |-> data.info[1], isDone |-> data.isDone[1]]

\* Variant: an undefined name is written as the empty string.
ApplyDataBlank(row, data) ==
    [id     |-> row.id,
     name   |-> IF data.name = Undefined THEN "" ELSE data.name[1],
     info   |-> IF data.info = Undefined THEN row.info ELSE data.info[1],
     isDone |-> IF data.isDone = Undefined THEN row.isDone ELSE data.isDone[1]]

\* Variant: isDone is left out of the data written.
ApplyDataNoDone(row, data) ==
    [id     |-> row.id,
     name   |-> IF data.name = Undefined THEN row.name ELSE data.name[1],
     info   |-> IF data.info = Undefined THEN row.info ELSE data.info[1],
     isDone |-> row.isDone]

\* prisma.tasks.update, data: a property that is undefined is not part of
\* the generated query, the column keeps its value.
ApplyData(row, data) ==
    [id     |-> row.id,
     name   |-> IF data.name = Undefined THEN row.name ELSE data.name[1],
     info   |-> IF data.info = Undefined THEN row.info ELSE data.info[1],
     isDone |-> IF data.isDone = Undefined THEN row.isDone ELSE data.isDone[1]]

\* Variant: the where clause is lost, every row is written.
UpdateRowsAll(rows, n, data) ==
    [i \in 1 .. Len(rows) |-> [ApplyData(rows[i], data) EXCEPT !.id = rows[i].id]]

\* prisma.tasks.update, where: the row of the id is the one written.
UpdateRows(rows, n, data) ==
    [i \in 1 .. Len(rows) |-> IF rows[i].id = n THEN ApplyData(rows[i], data) ELSE rows[i]]

\* Variant: the row is looked up, not deleted.
DeleteRowsNone(rows, n) == rows

\* prisma.tasks.delete: the row of the id is removed.
DeleteRows(rows, n) == SelectSeq(rows, LAMBDA r : r.id # n)

\* Variant: the list is filtered to the Tasks not done.
FindManyOpen(rows) == SelectSeq(rows, LAMBDA r : ~r.isDone)

\* prisma.tasks.findMany({}): every row.
FindMany(rows) == rows

TypeOK ==
    /\ nextId \in 1 .. MaxId + 1
    /\ alive \in BOOLEAN
    /\ InFlight <= Cardinality(Clients)
    /\ \A q \in Calls : q.op \in {"findMany", "create", "update", "delete", "abandoned"}
    /\ resp.status \in {0, 200, 404, 500}
    /\ used \subseteq 1 .. MaxId

Init ==
    /\ store = <<>>
    /\ nextId = 1
    /\ pending = EmptyBag
    /\ resp = NoResp
    /\ alive = TRUE
    /\ used = {}

Json(op, status) ==
    [op |-> op, status |-> status, type |-> "json", task |-> <<>>,
     tasks |-> <<>>, errors |-> <<>>, err |-> ""]

\* res.json(row)
TaskResp(op, row) == [Json(op, 200) EXCEPT !.task = <<row>>]

\* res.status(s).send({ errors })
ErrorsResp(op, status, errs) == [Json(op, status) EXCEPT !.errors = errs]

\* The error a rejected store call carries: the client refuses a call whose
\* unique id is missing (or NaN), P2025 reports that no row has the id;
\* anything else is a failure of the store itself.
StoreError(q) ==
    CASE q.op \in {"update", "delete"} /\ q.id = Undefined -> "PrismaClientValidationError"
      [] q.op \in {"update", "delete"} /\ q.id # Undefined /\ ~HasId(store, q.id) -> "P2025"
      [] OTHER -> "store failure"

\* res.status(500).json(err)
CatchResp(op, err) == [Json(op, 500) EXCEPT !.err = err]

\* A connection is free to carry a new request.
Accepting == alive /\ InFlight < Cardinality(Clients)

\* ------------------------------------------------------------- GET /read
ReadRequest ==
    /\ Accepting
    /\ pending' = Suspend(Call("findMany", Undefined, NoData))
    /\ resp' = NoResp
    /\ UNCHANGED <<store, nextId, alive, used>>

ReadResume(q) ==
    /\ alive
    /\ q.op = "findMany"
    /\ resp' = [Json("read", 200) EXCEPT !.tasks = FindMany(store)]
    /\ pending' = Settle(q)
    /\ UNCHANGED <<store, nextId, alive, used>>

\* findMany rejects: the async handler has no try/catch, its promise rejects.
\* What follows depends on the Express and Node versions of the build: the
\* rejection is unhandled and ends the process (every request in flight is
\* dropped with it), or it is unhandled and only warned about (the request is
\* never answered), or the router passes it to the default error handler,
\* which answers 500 with an HTML page.
ReadReject(q) ==
    /\ alive
    /\ q.op = "findMany"
    /\ \/ /\ alive' = FALSE
          /\ resp' = NoResp
          /\ pending' = EmptyBag
       \/ /\ pending' = Settle(q) (+) SetToBag({Call("abandoned", Undefined, NoData)})
          /\ resp' = NoResp
          /\ UNCHANGED alive
       \/ /\ resp' = [Json("read", 500) EXCEPT !.type = "html"]
          /\ pending' = Settle(q)
          /\ UNCHANGED alive
    /\ UNCHANGED <<store, nextId, used>>

\* ---------------------------------------------------------- POST /create
CreateRequest(b) ==
    /\ Accepting
    /\ nextId + InFlightOf("create") <= MaxId
    /\ IF ValidateCreate(b) # <<>>
          THEN /\ resp' = ErrorsResp("create", 404, ValidateCreate(b))
               /\ UNCHANGED pending
          ELSE /\ pending' = Suspend(Call("create", Undefined, SanitizeCreate(b)))
               /\ resp' = NoResp
    /\ UNCHANGED <<store, nextId, alive, used>>

CreateThen(q) ==
    /\ alive
    /\ q.op = "create"
    /\ store' = Append(store, NewRow(AssignedId, q.data))
    /\ nextId' = AssignedId + 1
    /\ used' = used \cup {AssignedId}
    /\ resp' = TaskResp("create", NewRow(AssignedId, q.data))
    /\ pending' = Settle(q)
    /\ UNCHANGED alive

\* The promise rejects: the store failed.
CreateCatch(q) ==
    /\ alive
    /\ q.op = "create"
    /\ resp' = CatchResp("create", StoreError(q))
    /\ pending' = Settle(q)
    /\ UNCHANGED <<store, nextId, alive, used>>

\* ---------------------------------------------------------- POST /update
UpdateRequest(id, b) ==
    /\ Accepting
    /\ IF ValidateUpdate(b) # <<>>
          THEN /\ resp' = ErrorsResp("update", 200, ValidateUpdate(b))
               /\ UNCHANGED pending
          ELSE /\ pending' = Suspend(Call("update", id, b))
               /\ resp' = NoResp
    /\ UNCHANGED <<store, nextId, alive, used>>

\* Variant: the answer carries the row as it was before the update.
UpdateThenStale(q) ==
    /\ alive
    /\ q.op = "update"
    /\ HasId(store, q.id)
    /\ store' = UpdateRows(store, q.id[1], q.data)
    /\ resp' = TaskResp("update", RowOf(store, q.id[1]))
    /\ pending' = Settle(q)
    /\ UNCHANGED <<nextId, alive, used>>

UpdateThen(q) ==
    /\ alive
    /\ q.op = "update"
    /\ HasId(store, q.id)
    /\ store' = UpdateRows(store, q.id[1], q.data)
    /\ resp' = TaskResp("update", RowOf(store', q.id[1]))
    /\ pending' = Settle(q)
    /\ UNCHANGED <<nextId, alive, used>>

\* The promise rejects: no row has the id (or where.id is undefined), or the
\* store failed.
UpdateCatch(q) ==
    /\ alive
    /\ q.op = "update"
    /\ resp' = CatchResp("update", StoreError(q))
    /\ pending' = Settle(q)
    /\ UNCHANGED <<store, nextId, alive, used>>

\* ------------------------------------------------------- GET /delete/:id
DeleteRequest(p) ==
    /\ Accepting
    /\ IF ValidateDelete(p) # <<>>
          THEN /\ resp' = ErrorsResp("delete", 200, ValidateDelete(p))
               /\ UNCHANGED pending
          ELSE /\ pending' = Suspend(Call("delete", ParseInt(p), NoData))
               /\ resp' = NoResp
    /\ UNCHANGED <<store, nextId, alive, used>>

\* Variant: deleteMany in place of delete, which succeeds on no match.
DeleteThenMany(q) ==
    /\ alive
    /\ q.op = "delete"
    /\ q.id # Undefined
    /\ store' = DeleteRows(store, q.id[1])
    /\ resp' = Json("delete", 200)
    /\ pending' = Settle(q)
    /\ UNCHANGED <<nextId, alive, used>>

DeleteThen(q) ==
    /\ alive
    /\ q.op = "delete"
    /\ HasId(store, q.id)
    /\ store' = DeleteRows(store, q.id[1])
    /\ resp' = TaskResp("delete", RowOf(store, q.id[1]))
    /\ pending' = Settle(q)
    /\ UNCHANGED <<nextId, alive, used>>

\* The promise rejects: no row has the id (or the id is NaN), or the store
\* failed.
DeleteCatch(q) ==
    /\ alive
    /\ q.op = "delete"
    /\ resp' = CatchResp("delete", StoreError(q))
    /\ pending' = Settle(q)
    /\ UNCHANGED <<store, nextId, alive, used>>

Next ==
    \/ ReadRequest
    \/ \E q \in Calls : ReadResume(q)
    \/ \E q \in Calls : ReadReject(q)
    \/ \E b \in CreateBodies : CreateRequest(b)
    \/ \E q \in Calls : CreateThen(q)
    \/ \E q \in Calls : CreateCatch(q)
    \/ \E id \in BodyIds, b \in UpdateBodies : UpdateRequest(id, b)
    \/ \E q \in Calls : UpdateThen(q)
    \/ \E q \in Calls : UpdateCatch(q)
    \/ \E p \in PathParams : DeleteRequest(p)
    \/ \E q \in Calls : DeleteThen(q)
    \/ \E q \in Calls : DeleteCatch(q)

Spec == Init /\ [][Next]_vars

\* ------------------------------------------------------------ properties
Rows(rows) == { rows[i] : i \in 1 .. Len(rows) }

\* The step settles the store call q and answers its request.
Answers(q) == pending' = Settle(q) /\ resp' # NoResp

Supplies(b) == b.name # Undefined /\ b.info # Undefined /\ b.isDone # Undefined

NameGiven(b) == b.name # Undefined /\ b.name # <<"">>

\* C1 as claimed: every POST /create with a name that is present and not
\* empty is answered 200 with the Task made of the request's values, under an
\* id no Task had before, and that Task is stored.
C1_EveryCreateAnswered200 ==
    [][\A q \in Calls : q.op = "create" /\ Answers(q) =>
          /\ resp'.status = 200
          /\ Len(resp'.task) = 1
          /\ resp'.task[1] \in Rows(store')]_vars

\* C1, amended: a POST /create with a name that is present and not empty
\* issues one store call with the request's name, info and isDone (info ""
\* and isDone false when omitted); when that call succeeds the answer is 200
\* with a Task of exactly these values under an id no Task ever had, and the
\* Task is appended to the store; when it fails the answer is 500 and nothing
\* is stored.
C1_CreateStoresRequest ==
    [][/\ \A b \in CreateBodies : NameGiven(b) /\ CreateRequest(b) =>
             pending' = Suspend(
                 [op |-> "create", id |-> Undefined,
                  data |-> [name   |-> b.name,
                            info   |-> IF b.info = Undefined THEN <<"">> ELSE b.info,
                            isDone |-> IF b.isDone = Undefined THEN <<FALSE>> ELSE b.isDone]])
       /\ \A q \in Calls : q.op = "create" /\ Answers(q) =>
             \/ /\ resp'.status = 200 /\ resp'.type = "json" /\ Len(resp'.task) = 1
                /\ << resp'.task[1].name >> = q.data.name
                /\ << resp'.task[1].info >> = q.data.info
                /\ << resp'.task[1].isDone >> = q.data.isDone
                /\ resp'.task[1].id \notin used \cup Ids(store)
                /\ store' = Append(store, resp'.task[1])
             \/ /\ resp'.status = 500 /\ resp'.type = "json"
                /\ store' = store]_vars

\* A create that left info and isDone out was answered 200 with the defaults,
\* its Task is stored beside an older one.
C1_Witness ==
    /\ resp.op = "create" /\ resp.status = 200
    /\ Len(store) = 2
    /\ resp.task = << store[2] >>
    /\ store[2].info = "" /\ store[2].isDone = FALSE /\ store[2].name = "a"
    /\ store[2].id # store[1].id

\* C2: a POST /create whose name is missing or empty issues no store call and
\* leaves the store as it was; the answer carries a list of validation
\* failures that is not empty.
C2_InvalidCreateStoresNothing ==
    [][\A b \in CreateBodies : ~NameGiven(b) /\ CreateRequest(b) =>
          /\ store' = store
          /\ pending' = pending
          /\ resp'.op = "create"
          /\ resp'.status # 200
          /\ Len(resp'.errors) > 0]_vars

\* A create was rejected by validation while Tasks were stored.
C2_Witness ==
    /\ resp.op = "create"
    /\ Len(resp.errors) > 0
    /\ resp.errors[1].path = "name"
    /\ Len(store) > 0

\* What an update with payload d leaves in row r: a supplied value replaces
\* the stored one, an omitted one leaves it.
Merged(r, d) ==
    /\ d.name # Undefined => << r.name >> = d.name
    /\ d.info # Undefined => << r.info >> = d.info
    /\ d.isDone # Undefined => << r.isDone >> = d.isDone

Kept(old, new, d) ==
    /\ new.id = old.id
    /\ d.name = Undefined => new.name = old.name
    /\ d.info = Undefined => new.info = old.info
    /\ d.isDone = Undefined => new.isDone = old.isDone

\* A GET /read answered 200 returns the rows of the store as they are.
ReadReturnsStore ==
    \A q \in Calls : q.op = "findMany" /\ Answers(q) /\ resp'.status = 200 =>
        resp'.tasks = store /\ store' = store

\* C3 as claimed: every POST /update whose id matches a Task is answered 200
\* with a Task whose name, info and isDone are the payload's, and that Task is
\* what the store (hence a following GET /read) holds.
C3_UpdateAnswersPayload ==
    [][\A q \in Calls : q.op = "update" /\ HasId(store, q.id) /\ Answers(q) =>
          /\ resp'.status = 200
          /\ Len(resp'.task) = 1
          /\ << resp'.task[1].name >> = q.data.name
          /\ << resp'.task[1].info >> = q.data.info
          /\ << resp'.task[1].isDone >> = q.data.isDone
          /\ resp'.task[1] \in Rows(store')]_vars

\* C3, amended: a POST /update whose id matches a Task and whose store call
\* succeeds is answered 200 with the Task in which every value the payload
\* supplies is the payload's and every value it omits is the stored one; the
\* store holds that Task and no longer the old one, and a GET /read returns
\* the store as it is.  When the store call fails the answer is 500 and the
\* store is unchanged.
C3_UpdateRoundTrip ==
    [][/\ \A q \in Calls : q.op = "update" /\ HasId(store, q.id) /\ Answers(q) =>
             \/ /\ resp'.status = 200 /\ resp'.type = "json" /\ Len(resp'.task) = 1
                /\ Merged(resp'.task[1], q.data)
                /\ Kept(RowOf(store, q.id[1]), resp'.task[1], q.data)
                /\ { r \in Rows(store') : r.id = q.id[1] } = { resp'.task[1] }
             \/ /\ resp'.status = 500 /\ resp'.type = "json"
                /\ store' = store
       /\ ReadReturnsStore]_vars

\* A read returned a Task carrying the values of an update (only an update
\* sets the name b).
C3_Witness ==
    /\ resp.op = "read" /\ resp.status = 200
    /\ \E i \in 1 .. Len(resp.tasks) :
          resp.tasks[i].name = "b" /\ resp.tasks[i].info = "x" /\ resp.tasks[i].isDone

\* C4 as claimed: every GET /delete/:id whose id matches a Task is answered
\* 200 with the Task as it was, and the Task is gone.
C4_DeleteAnswers200 ==
    [][\A q \in Calls : q.op = "delete" /\ HasId(store, q.id) /\ Answers(q) =>
          /\ resp'.status = 200
          /\ resp'.task = << RowOf(store, q.id[1]) >>
          /\ q.id[1] \notin Ids(store')]_vars

\* C4, amended: a GET /delete/:id whose parsed id matches a Task and whose
\* store call succeeds is answered 200 with the Task as it was just before,
\* and the id is in the store no more; when the store call fails the answer
\* is 500 and the store is unchanged.  An id that left the store never comes
\* back, and a GET /read returns only ids that are in the store.
C4_DeleteRemoves ==
    [][/\ \A q \in Calls : q.op = "delete" /\ HasId(store, q.id) /\ Answers(q) =>
             \/ /\ resp'.status = 200 /\ resp'.type = "json"
                /\ resp'.task = << RowOf(store, q.id[1]) >>
                /\ q.id[1] \notin Ids(store')
             \/ /\ resp'.status = 500 /\ resp'.type = "json"
                /\ store' = store
       /\ \A n \in used \ Ids(store) : n \notin Ids(store')
       /\ \A q \in Calls : q.op = "findMany" /\ Answers(q) /\ resp'.status = 200 =>
             Ids(resp'.tasks) = Ids(store)]_vars

\* A Task that an update had changed was deleted, the answer carries the
\* changed values, another Task remains.
C4_Witness ==
    /\ resp.op = "delete" /\ resp.status = 200
    /\ Len(resp.task) = 1
    /\ resp.task[1].name = "b"
    /\ resp.task[1].id \notin Ids(store)
    /\ Len(store) = 1

\* C5: a POST /update or GET /delete/:id whose id matches no Task in the
\* store when its store call settles is answered 500, never 200, and the
\* store is unchanged.
C5_MissingIdGets500 ==
    [][\A q \in Calls : q.op \in {"update", "delete"} /\ ~HasId(store, q.id) /\ Answers(q) =>
          /\ resp'.status = 500
          /\ resp'.type = "json"
          /\ store' = store]_vars

\* Ids 1 and 2 were created and deleted, and a delete of one of them was
\* answered 500.
C5_Witness ==
    /\ resp.op = "delete" /\ resp.status = 500 /\ resp.err = "P2025"
    /\ {1, 2} \subseteq used
    /\ store = <<>>

\* C6: no two Tasks in the store share an id; a Task leaves the store only by
\* a delete of its id; the Task a create stored is there once, and a GET
\* /read returns every id of the store exactly once.
C6_IdOnceInRead ==
    [][/\ \A n \in Ids(store') : CountId(store', n) = 1
       /\ \A n \in Ids(store) \ Ids(store') :
             \E q \in Calls : q.op = "delete" /\ q.id = <<n>> /\ Answers(q)
       /\ \A q \in Calls : q.op = "create" /\ Answers(q) /\ resp'.status = 200 =>
             CountId(store', resp'.task[1].id) = 1
       /\ \A q \in Calls : q.op = "findMany" /\ Answers(q) /\ resp'.status = 200 =>
             \A n \in Ids(store) : CountId(resp'.tasks, n) = 1]_vars

\* A read returned two Tasks, created one after the other, the first of them
\* done.
C6_Witness ==
    /\ resp.op = "read" /\ resp.status = 200
    /\ Len(resp.tasks) = 2
    /\ resp.tasks[1].id # resp.tasks[2].id
    /\ resp.tasks[1].isDone

\* C7 as claimed: the process keeps running, no request is left without an
\* answer, and every answer is JSON, also when the store call fails.
C7_AlwaysJsonAnswer ==
    /\ alive
    /\ \A q \in Calls : q.op # "abandoned"
    /\ resp.type \in {"none", "json"}

\* Another update of the same id is in flight while q settles.
Concurrent(q) == \E o \in BagToSet(Settle(q)) : o.op = "update" /\ o.id = q.id

\* The step before committed an update of the id of q.
JustUpdated(q) ==
    /\ resp.op = "update" /\ resp.status = 200
    /\ q.id # Undefined
    /\ resp.task[1].id = q.id[1]

\* C8 as claimed: of two POST /update of one existing id in flight together,
\* both are answered 200, and once one has committed the Task stored has its
\* name, info and isDone all from that update, none from the other.
C8_LastUpdateWinsWhole ==
    [][\A q \in Calls :
          /\ q.op = "update" /\ HasId(store, q.id)
          /\ Concurrent(q) \/ JustUpdated(q)
          /\ Answers(q)
          => /\ resp'.status = 200
             /\ << RowOf(store', q.id[1]).name >> = q.data.name
             /\ << RowOf(store', q.id[1]).info >> = q.data.info
             /\ << RowOf(store', q.id[1]).isDone >> = q.data.isDone]_vars

\* C8, amended: of two POST /update of one existing id in flight together,
\* each whose store call succeeds is answered 200 and leaves the other in
\* flight untouched; the Task stored after a commit has every value the
\* committing payload supplies (a payload supplying name, info and isDone
\* replaces all three, whatever the update before it wrote) and keeps the
\* stored value of each one it omits.  An update whose store call fails is
\* answered 500 and changes nothing.
C8_LastUpdateWins ==
    [][\A q \in Calls :
          /\ q.op = "update" /\ HasId(store, q.id)
          /\ Concurrent(q) \/ JustUpdated(q)
          /\ Answers(q)
          => \/ /\ resp'.status = 200
                /\ Merged(RowOf(store', q.id[1]), q.data)
                /\ Kept(RowOf(store, q.id[1]), RowOf(store', q.id[1]), q.data)
                /\ Supplies(q.data) =>
                      RowOf(store', q.id[1]) =
                          [id |-> q.id[1], name |-> q.data.name[1],
                           info |-> q.data.info[1], isDone |-> q.data.isDone[1]]
                /\ CountId(store', q.id[1]) = 1
             \/ /\ resp'.status = 500
                /\ store' = store]_vars

\* One of two updates of the same Task committed all its three values while
\* the other, with another name, is still in flight.
C8_Witness ==
    /\ resp.op = "update" /\ resp.status = 200
    /\ resp.task[1].name = "b" /\ resp.task[1].info = "x" /\ resp.task[1].isDone
    /\ \E q \in Calls :
          /\ q.op = "update" /\ q.id = << resp.task[1].id >>
          /\ Supplies(q.data) /\ q.data.name = <<"a">>

\* C9 as claimed: an update that omits name, info or isDone passes validation
\* and the stored Task does not keep its value for the omitted field.
C9_OmittedOverwritten ==
    [][\A q \in Calls :
          q.op = "update" /\ HasId(store, q.id) /\ Answers(q) /\ resp'.status = 200 =>
             /\ q.data.name = Undefined =>
                   RowOf(store', q.id[1]).name # RowOf(store, q.id[1]).name
             /\ q.data.info = Undefined =>
                   RowOf(store', q.id[1]).info # RowOf(store, q.id[1]).info
             /\ q.data.isDone = Undefined =>
                   RowOf(store', q.id[1]).isDone # RowOf(store, q.id[1]).isDone]_vars

\* C9, amended: an update that omits name, info or isDone passes validation
\* (no answer to an update carries validation failures), and the stored Task
\* keeps its previous value for each omitted field.
C9_OmittedKept ==
    [][/\ resp'.op = "update" => Len(resp'.errors) = 0
       /\ \A q \in Calls :
             q.op = "update" /\ HasId(store, q.id) /\ Answers(q) /\ resp'.status = 200 =>
                Kept(RowOf(store, q.id[1]), RowOf(store', q.id[1]), q.data)]_vars

\* An update that supplied a name only was answered with the Task still
\* carrying the info and isDone its create gave it.
C9_Witness ==
    /\ resp.op = "update" /\ resp.status = 200
    /\ resp.task[1].name = "b" /\ resp.task[1].info = "" /\ resp.task[1].isDone = FALSE
    /\ resp.task[1] \in Rows(store)

\* C10: a create appends one Task and leaves the others as they are, an
\* update changes only the Task of its id and no id, a delete removes only
\* the Task of the parsed id; a step that answers a list request, a
\* validation failure or 500, or that answers nothing, leaves the store as it
\* is.
C10_OneRecordPerRequest ==
    [][/\ \A q \in Calls : q.op = "create" /\ Answers(q) /\ resp'.status = 200 =>
             /\ Len(store') = Len(store) + 1
             /\ SubSeq(store', 1, Len(store)) = store
       /\ \A q \in Calls : q.op = "update" /\ Answers(q) /\ resp'.status = 200 =>
             /\ Len(store') = Len(store)
             /\ \A i \in 1 .. Len(store) :
                   /\ store'[i].id = store[i].id
                   /\ store[i].id # q.id[1] => store'[i] = store[i]
       /\ \A q \in Calls : q.op = "delete" /\ Answers(q) /\ resp'.status = 200 =>
             /\ Len(store') = Len(store) - 1
             /\ store' = SelectSeq(store, LAMBDA r : r.id # q.id[1])
       /\ resp'.status # 200 \/ resp'.op = "read" \/ Len(resp'.errors) > 0 =>
             store' = store]_vars

\* An update changed the second of two Tasks and left the first.
C10_Witness ==
    /\ resp.op = "update" /\ resp.status = 200
    /\ Len(store) = 2
    /\ store[1].name = "a" /\ store[1].info = "" /\ store[1].isDone = FALSE
    /\ resp.task = << store[2] >>
    /\ store[2].name = "b" /\ store[2].isDone

====
